---- MODULE Spec2Model ----
(***************************************************************************)
(* OpenFOAMSymbolProvider.provideDocumentSymbols (extension.ts).           *)
(*                                                                         *)
(* A document is a sequence of raw lines; a line is a sequence of one-     *)
(* character strings, so that trim, startsWith, includes, the bracket      *)
(* counts and the five regular expressions are computed on the characters. *)
(* Line indices are zero-based as in the source: line j is doc[j + 1].     *)
(* A DocumentSymbol is identified by the index of its defining line.       *)
(***************************************************************************)
EXTENDS Integers, Sequences, FiniteSets, TLC

VARIABLES doc, i, pc, symbols, node, stack, reads, previous

vars == <<doc, i, pc, symbols, node, stack, reads, previous>>

\* ------------------------------------------------------------------------
\* Characters and string primitives
\* ------------------------------------------------------------------------

LowerSeq == <<"a","b","c","d","e","f","g","h","i","j","k","l","m",
              "n","o","p","q","r","s","t","u","v","w","x","y","z">>

UpperSeq == <<"A","B","C","D","E","F","G","H","I","J","K","L","M",
              "N","O","P","Q","R","S","T","U","V","W","X","Y","Z">>

Elems(s) == {s[k] : k \in DOMAIN s}

Letter == Elems(LowerSeq) \cup Elems(UpperSeq)

Digit == {"0","1","2","3","4","5","6","7","8","9"}

\* \w
WordChar == Letter \cup Digit \cup {"_"}

\* \s (the white space that occurs in the modelled documents)
WS == {" ", "\t"}

\* the i flag of EDGES_REGEX
ToLower(c) ==
    IF c \in Elems(UpperSeq)
    THEN LowerSeq[CHOOSE k \in DOMAIN UpperSeq : UpperSeq[k] = c]
    ELSE c

Min(a, b) == IF a <= b THEN a ELSE b

\* first position p' >= p of s whose character is not in C (Len(s)+1 if none)
RECURSIVE SkipWhile(_, _, _)
SkipWhile(s, p, C) ==
    IF p <= Len(s) /\ s[p] \in C THEN SkipWhile(s, p + 1, C) ELSE p

\* first position p' >= p of s whose character is in C (Len(s)+1 if none)
RECURSIVE SkipUntil(_, _, _)
SkipUntil(s, p, C) ==
    IF p <= Len(s) /\ s[p] \notin C THEN SkipUntil(s, p + 1, C) ELSE p

\* last position p' <= p of s whose character is not white space (0 if none)
RECURSIVE LastNonWS(_, _)
LastNonWS(s, p) ==
    IF p >= 1 /\ s[p] \in WS THEN LastNonWS(s, p - 1) ELSE p

\* String.prototype.trim
Trim(s) ==
    LET a == SkipWhile(s, 1, WS)
        b == LastNonWS(s, Len(s))
    IN  IF a > b THEN <<>> ELSE SubSeq(s, a, b)

\* TextLine.firstNonWhitespaceCharacterIndex (the length of a blank line)
firstNonWhitespaceCharacterIndex(s) == SkipWhile(s, 1, WS) - 1

\* String.prototype.startsWith
StartsWith(s, p) == Len(s) >= Len(p) /\ SubSeq(s, 1, Len(p)) = p

\* String.prototype.endsWith, for one character
EndsWith(s, c) == Len(s) >= 1 /\ s[Len(s)] = c

\* String.prototype.includes, for one character
Includes(s, c) == \E k \in DOMAIN s : s[k] = c

\* (line.match(new RegExp('\\' + c, 'g')) || []).length
CountChar(s, c) == Cardinality({k \in DOMAIN s : s[k] = c})

\* ------------------------------------------------------------------------
\* String literals of the source
\* ------------------------------------------------------------------------

S_edges == <<"e","d","g","e","s">>
S_faces == <<"f","a","c","e","s">>
S_points == <<"p","o","i","n","t","s">>
S_internalField == <<"i","n","t","e","r","n","a","l","F","i","e","l","d">>
S_boundary == <<"b","o","u","n","d","a","r","y">>
S_frontAndBack == <<"f","r","o","n","t","A","n","d","B","a","c","k">>
S_inlet == <<"i","n","l","e","t">>
S_outlet == <<"o","u","t","l","e","t">>
S_walls == <<"w","a","l","l","s">>
S_symmetry == <<"s","y","m","m","e","t","r","y">>
S_FoamFile == <<"F","o","a","m","F","i","l","e">>
S_block == <<"b","l","o","c","k">>
S_list == <<"l","i","s","t">>
S_header == <<"h","e","a","d","e","r">>
S_class == <<"c","l","a","s","s">>
S_object == <<"o","b","j","e","c","t">>
S_version == <<"v","e","r","s","i","o","n">>
S_format == <<"f","o","r","m","a","t">>
S_location == <<"l","o","c","a","t","i","o","n">>

\* the alternatives of EDGES_REGEX, lower-cased for the i flag
EdgesAlternatives ==
    { S_edges, S_faces, S_points, [k \in DOMAIN S_internalField |-> ToLower(S_internalField[k])],
      S_boundary }

\* ['boundary', 'faces', 'points', 'edges', 'internalField']
StructNames == {S_boundary, S_faces, S_points, S_edges, S_internalField}

\* ['frontAndBack', 'inlet', 'outlet', 'walls', 'symmetry']
InterfaceNames == {S_frontAndBack, S_inlet, S_outlet, S_walls, S_symmetry}

\* ------------------------------------------------------------------------
\* The regular expressions: [ok, g1, g2] is String.prototype.match's result
\* (ok = not null, g1 = match[1], g2 = match[2])
\* ------------------------------------------------------------------------

NoMatch == [ok |-> FALSE, g1 |-> <<>>, g2 |-> <<>>]

Match(a, b) == [ok |-> TRUE, g1 |-> a, g2 |-> b]

\* EDGES_REGEX without its (\{|$|;) group: any line that starts with a
\* reserved name matches
EDGES_REGEX_NoSuffix(text) ==
    LET low == [k \in DOMAIN text |-> ToLower(text[k])]
        ks  == {w \in EdgesAlternatives : StartsWith(low, w)}
    IN  IF ks = {} THEN NoMatch
        ELSE Match(SubSeq(text, 1, Len(CHOOSE w \in ks : TRUE)), <<>>)

\* EDGES_REGEX without its i flag
EDGES_REGEX_CaseSensitive(text) ==
    LET ks == {w \in StructNames : StartsWith(text, w)}
    IN  IF ks = {} THEN NoMatch
        ELSE LET w == CHOOSE w \in ks : TRUE
                 p == SkipWhile(text, Len(w) + 1, WS)
             IN  IF p > Len(text) \/ text[p] \in {"{", ";"}
                 THEN Match(SubSeq(text, 1, Len(w)), <<>>)
                 ELSE NoMatch

\* /^(edges|faces|points|internalField|boundary)\s*(\{|$|;)/i
EDGES_REGEX(text) ==
    LET low == [k \in DOMAIN text |-> ToLower(text[k])]
        ks  == {w \in EdgesAlternatives : StartsWith(low, w)}
    IN  IF ks = {} THEN NoMatch
        ELSE LET w == CHOOSE w \in ks : TRUE
                 p == SkipWhile(text, Len(w) + 1, WS)
             IN  IF p > Len(text) \/ text[p] \in {"{", ";"}
                 THEN Match(SubSeq(text, 1, Len(w)), <<>>)
                 ELSE NoMatch

\* /^([a-zA-Z][\w]*)\s*(\{|$)/
NAMED_BLOCK_REGEX(text) ==
    IF text = <<>> \/ text[1] \notin Letter THEN NoMatch
    ELSE LET p1 == SkipWhile(text, 2, WordChar)
             p2 == SkipWhile(text, p1, WS)
         IN  IF p2 > Len(text) \/ text[p2] = "{"
             THEN Match(SubSeq(text, 1, p1 - 1), <<>>)
             ELSE NoMatch

\* /^(\w+)\s*\($/
LIST_REGEX(text) ==
    LET p1 == SkipWhile(text, 1, WordChar)
        p2 == SkipWhile(text, p1, WS)
    IN  IF p1 > 1 /\ p2 = Len(text) /\ text[p2] = "("
        THEN Match(SubSeq(text, 1, p1 - 1), <<>>)
        ELSE NoMatch

\* /^(\w+)\s+\[([^\]]+)\]\s*;/
DICT_REGEX(text) ==
    LET p1 == SkipWhile(text, 1, WordChar)
        p2 == SkipWhile(text, p1, WS)
        p3 == SkipUntil(text, p2 + 1, {"]"})
        p4 == SkipWhile(text, p3 + 1, WS)
    IN  IF /\ p1 > 1
           /\ p2 > p1
           /\ p2 <= Len(text) /\ text[p2] = "["
           /\ p3 > p2 + 1
           /\ p3 <= Len(text)
           /\ p4 <= Len(text) /\ text[p4] = ";"
        THEN Match(SubSeq(text, 1, p1 - 1), SubSeq(text, p2 + 1, p3 - 1))
        ELSE NoMatch

\* /^([a-zA-Z][\w.]*)\s+([^;{}]+);/
\* \s+ is greedy and gives one white-space character back to group 2 when
\* nothing else precedes the ';'
KV_REGEX(text) ==
    IF text = <<>> \/ text[1] \notin Letter THEN NoMatch
    ELSE LET p1 == SkipWhile(text, 2, WordChar \cup {"."})
             q  == SkipWhile(text, p1, WS)
             p2 == SkipUntil(text, p1, {";", "{", "}"})
         IN  IF /\ q > p1
                /\ p2 <= Len(text) /\ text[p2] = ";"
                /\ p2 - p1 >= 2
             THEN Match(SubSeq(text, 1, p1 - 1),
                        IF q < p2 THEN SubSeq(text, q, p2 - 1)
                                  ELSE SubSeq(text, p2 - 1, p2 - 1))
             ELSE NoMatch

\* ------------------------------------------------------------------------
\* The document
\* ------------------------------------------------------------------------

\* document.lineCount
lineCount == Len(doc)

ValidLines == 0 .. lineCount - 1

\* document.lineAt(j).text; lineAt throws on an index outside the document,
\* which the step records in reads (the text is then irrelevant)
LineText(j) == IF j \in ValidLines THEN doc[j + 1] ELSE <<>>

\* line.range.start and line.range.end of line j
LineStart(j) == [line |-> j, character |-> 0]

LineEnd(j) == [line |-> j, character |-> Len(LineText(j))]

\* text === '' || text.startsWith('//') || text.startsWith('/*')
IsBlankOrComment(text) ==
    text = <<>> \/ StartsWith(text, <<"/", "/">>) \/ StartsWith(text, <<"/", "*">>)

\* ------------------------------------------------------------------------
\* findClosingBracket
\* ------------------------------------------------------------------------

\* return document.lineCount - 1
FCBDefault == lineCount - 1

\* the for loop without the continue of line 47: a line that is exactly the
\* opener is counted like any other line that starts with it
RECURSIVE FCBLoopNoSkip(_, _, _, _)
FCBLoopNoSkip(j, open, openChar, closeChar) ==
    IF j >= lineCount
    THEN [ret |-> FCBDefault, balanced |-> FALSE, reads |-> {}]
    ELSE LET line == LineText(j)
             open1 == IF open = 0 /\ StartsWith(Trim(line), <<openChar>>)
                      THEN 1 ELSE open
             open2 == open1 + CountChar(line, openChar) - CountChar(line, closeChar)
             rest == FCBLoopNoSkip(j + 1, open2, openChar, closeChar)
         IN  IF open2 = 0
             THEN [ret |-> j, balanced |-> TRUE, reads |-> {j}]
             ELSE [rest EXCEPT !.reads = @ \cup {j}]

\* the for loop of findClosingBracket from line j with the running count
\* open: ret is the value returned, balanced tells whether it was returned
\* from inside the loop, reads the line indices given to lineAt
RECURSIVE FCBLoop(_, _, _, _)
FCBLoop(j, open, openChar, closeChar) ==
    IF j >= lineCount
    THEN [ret |-> FCBDefault, balanced |-> FALSE, reads |-> {}]
    ELSE LET line == LineText(j)
             open1 == IF open = 0 /\ StartsWith(Trim(line), <<openChar>>)
                      THEN 1 ELSE open
             open2 == open1 + CountChar(line, openChar) - CountChar(line, closeChar)
             rest == IF open = 0 /\ Trim(line) = <<openChar>>
                     THEN FCBLoop(j + 1, 1, openChar, closeChar)
                     ELSE FCBLoop(j + 1, open2, openChar, closeChar)
         IN  IF ~(open = 0 /\ Trim(line) = <<openChar>>) /\ open2 = 0
             THEN [ret |-> j, balanced |-> TRUE, reads |-> {j}]
             ELSE [rest EXCEPT !.reads = @ \cup {j}]

\* findClosingBracket with its loop started at the top of the document
findClosingBracketFromTop(startLine, openChar, closeChar, initialCount) ==
    FCBLoop(startLine - startLine, initialCount, openChar, closeChar)

\* findClosingBracket that starts its count at 0 whatever initialCount is
findClosingBracketNoInitial(startLine, openChar, closeChar, initialCount) ==
    FCBLoop(startLine, initialCount - initialCount, openChar, closeChar)

findClosingBracket(startLine, openChar, closeChar, initialCount) ==
    FCBLoop(startLine, initialCount, openChar, closeChar)

\* ------------------------------------------------------------------------
\* The brace lookahead of the named-block branch
\* ------------------------------------------------------------------------

\* LookaheadLimit without the Math.min against the line count
LookaheadLimitUnbounded(n) == n + 5

\* LookaheadLimit with a window one line shorter
LookaheadLimitShort(n) == Min(n + 4, lineCount)

\* Math.min(i + 5, document.lineCount)
LookaheadLimit(n) == Min(n + 5, lineCount)

\* the loop from line j: found is foundOpeningBrace
RECURSIVE LookaheadLoop(_, _)
LookaheadLoop(j, limit) ==
    IF j >= limit THEN [found |-> FALSE, reads |-> {}]
    ELSE LET nextLine == Trim(LineText(j))
         IN  IF nextLine = <<"{">> \/ StartsWith(nextLine, <<"{">>)
             THEN [found |-> TRUE, reads |-> {j}]
             ELSE IF ~IsBlankOrComment(nextLine)
             THEN [found |-> FALSE, reads |-> {j}]
             ELSE [LookaheadLoop(j + 1, limit) EXCEPT !.reads = @ \cup {j}]

Lookahead(n) == LookaheadLoop(n + 1, LookaheadLimit(n))

\* the lookahead of the FoamFile branch: endLine and the indices read
RECURSIVE FoamFileLoop(_, _)
FoamFileLoop(j, n) ==
    IF j >= lineCount THEN [endLine |-> n, reads |-> {}]
    ELSE IF Includes(LineText(j), "{")
    THEN LET f == findClosingBracket(j, "{", "}", 0)
         IN  [endLine |-> f.ret, reads |-> f.reads \cup {j}]
    ELSE IF Trim(LineText(j)) # <<>> /\ ~StartsWith(Trim(LineText(j)), <<"/", "/">>)
    THEN [endLine |-> n, reads |-> {j}]
    ELSE [FoamFileLoop(j + 1, n) EXCEPT !.reads = @ \cup {j}]

\* ------------------------------------------------------------------------
\* One iteration of the driver loop: the symbol made of line n, if any
\* ------------------------------------------------------------------------

\* continue, or no branch matched: symbol stays null
NoSymbol(r) ==
    [symbol |-> FALSE, name |-> <<>>, detail |-> <<>>, kind |-> "None",
     endLine |-> 0, reads |-> r]

\* new vscode.DocumentSymbol(name, detail, kind, ...) whose range ends at
\* document.lineAt(endLine).range.end
NewSymbol(name, detail, kind, endLine, r) ==
    [symbol |-> TRUE, name |-> name, detail |-> detail, kind |-> kind,
     endLine |-> endLine, reads |-> r \cup {endLine}]

\* the symbolKind / detail lookup of the named-block branch
NamedKind(name) ==
    IF name \in StructNames THEN "Struct"
    ELSE IF name \in InterfaceNames THEN "Interface"
    ELSE "Object"

NamedDetail(name) ==
    IF name \in StructNames THEN name
    ELSE IF name \in InterfaceNames THEN S_boundary
    ELSE S_block

\* the symbolKind lookup of the key-value branch
KVKind(name) ==
    IF name = S_class \/ name = S_object THEN "Class"
    ELSE IF name = S_version \/ name = S_format THEN "Constant"
    ELSE IF name = S_location THEN "File"
    ELSE "Property"

Classify(n) ==
    LET text  == Trim(LineText(n))
        brace == findClosingBracket(n + 1, "{", "}",
                                    IF Includes(text, "{") THEN 1 ELSE 0)
        paren == findClosingBracket(n + 1, "(", ")", 1)
        look  == IF ~Includes(text, "{") THEN Lookahead(n)
                 ELSE [found |-> TRUE, reads |-> {}]
        foam  == IF Includes(text, "{")
                 THEN [endLine |-> brace.ret, reads |-> brace.reads]
                 ELSE FoamFileLoop(n + 1, n)
    IN  IF IsBlankOrComment(text) THEN NoSymbol({n})
        ELSE IF EDGES_REGEX(text).ok
        THEN IF EndsWith(text, ";") /\ ~Includes(text, "{")
             THEN NoSymbol({n})
             ELSE NewSymbol(EDGES_REGEX(text).g1, EDGES_REGEX(text).g1, "Struct",
                            brace.ret, {n} \cup brace.reads)
        ELSE IF NAMED_BLOCK_REGEX(text).ok
        THEN IF ~look.found
             THEN NoSymbol({n} \cup look.reads)
             ELSE NewSymbol(NAMED_BLOCK_REGEX(text).g1,
                            NamedDetail(NAMED_BLOCK_REGEX(text).g1),
                            NamedKind(NAMED_BLOCK_REGEX(text).g1),
                            brace.ret, {n} \cup look.reads \cup brace.reads)
        ELSE IF LIST_REGEX(text).ok
        THEN NewSymbol(LIST_REGEX(text).g1, S_list, "Array",
                       paren.ret, {n} \cup paren.reads)
        ELSE IF text = S_FoamFile
        THEN NewSymbol(S_FoamFile, S_header, "File",
                       foam.endLine, {n} \cup foam.reads)
        ELSE IF DICT_REGEX(text).ok
        THEN NewSymbol(DICT_REGEX(text).g1,
                       <<"[">> \o Trim(DICT_REGEX(text).g2) \o <<"]">>,
                       "Constant", n, {n})
        ELSE IF KV_REGEX(text).ok
        THEN NewSymbol(KV_REGEX(text).g1, Trim(KV_REGEX(text).g2),
                       KVKind(KV_REGEX(text).g1), n, {n})
        ELSE NoSymbol({n})

\* the DocumentSymbol made of line n: range, selectionRange, no children yet
DocumentSymbol(n, c) ==
    [name |-> c.name, detail |-> c.detail, kind |-> c.kind,
     range |-> [start |-> LineStart(n), end |-> LineEnd(c.endLine)],
     selectionRange |-> [start |-> LineStart(n), end |-> LineEnd(n)],
     children |-> <<>>]

\* ------------------------------------------------------------------------
\* pushSymbol
\* ------------------------------------------------------------------------

\* PopStack with > for >=: an entry of the same indent stays open
RECURSIVE PopStackStrict(_, _)
PopStackStrict(stk, indent) ==
    IF Len(stk) > 0 /\ stk[Len(stk)].indent > indent
    THEN PopStackStrict(SubSeq(stk, 1, Len(stk) - 1), indent)
    ELSE stk

\* PopStack with if for while: at most one entry is closed
PopStackOnce(stk, indent) ==
    IF Len(stk) > 0 /\ stk[Len(stk)].indent >= indent
    THEN SubSeq(stk, 1, Len(stk) - 1)
    ELSE stk

\* while (stack.length > 0 && stack[stack.length - 1].indent >= indent) stack.pop()
RECURSIVE PopStack(_, _)
PopStack(stk, indent) ==
    IF Len(stk) > 0 /\ stk[Len(stk)].indent >= indent
    THEN PopStack(SubSeq(stk, 1, Len(stk) - 1), indent)
    ELSE stk

\* ArrayPush with unshift for push: the new element goes first
ArrayUnshift(list, n) == <<n>> \o list

\* Array.prototype.push on children and on symbols
ArrayPush(list, n) == Append(list, n)

\* pushSymbol with the else of line 31 dropped: a symbol attached to a parent
\* is pushed to the roots as well
pushSymbolBoth(n, symbol, indent) ==
    LET stk   == PopStack(stack, indent)
        added == [m \in DOMAIN node \cup {n} |-> IF m = n THEN symbol ELSE node[m]]
    IN  /\ IF Len(stk) > 0
           THEN node' = [added EXCEPT ![stk[Len(stk)].symbol].children =
                                          ArrayPush(@, n)]
           ELSE node' = added
        /\ symbols' = ArrayPush(symbols, n)
        /\ stack' = Append(stk, [symbol |-> n, indent |-> indent])

\* pushSymbol that pops a copy of the stack: the symbol is attached as in
\* pushSymbol but the popped entries stay on the stack
pushSymbolKeepStack(n, symbol, indent) ==
    LET stk   == PopStack(stack, indent)
        added == [m \in DOMAIN node \cup {n} |-> IF m = n THEN symbol ELSE node[m]]
    IN  /\ IF Len(stk) > 0
           THEN /\ node' = [added EXCEPT ![stk[Len(stk)].symbol].children =
                                             ArrayPush(@, n)]
                /\ symbols' = symbols
           ELSE /\ node' = added
                /\ symbols' = ArrayPush(symbols, n)
        /\ stack' = Append(stack, [symbol |-> n, indent |-> indent])

pushSymbol(n, symbol, indent) ==
    LET stk   == PopStack(stack, indent)
        added == [m \in DOMAIN node \cup {n} |-> IF m = n THEN symbol ELSE node[m]]
    IN  /\ IF Len(stk) > 0
           THEN /\ node' = [added EXCEPT ![stk[Len(stk)].symbol].children =
                                             ArrayPush(@, n)]
                /\ symbols' = symbols
           ELSE /\ node' = added
                /\ symbols' = ArrayPush(symbols, n)
        /\ stack' = Append(stk, [symbol |-> n, indent |-> indent])

\* ------------------------------------------------------------------------
\* The driver loop
\* ------------------------------------------------------------------------

\* SkipLine that takes the top entry off the stack
SkipLinePopping ==
    /\ pc = "scan"
    /\ i < lineCount
    /\ ~Classify(i).symbol
    /\ reads' = reads \cup Classify(i).reads
    /\ i' = i + 1
    /\ stack' = SubSeq(stack, 1, Len(stack) - 1)
    /\ UNCHANGED <<doc, pc, symbols, node, previous>>

\* an iteration that ends in continue or leaves symbol null
SkipLine ==
    /\ pc = "scan"
    /\ i < lineCount
    /\ ~Classify(i).symbol
    /\ reads' = reads \cup Classify(i).reads
    /\ i' = i + 1
    /\ UNCHANGED <<doc, pc, symbols, node, stack, previous>>

\* PushLine that moves the driver past the span it has just resolved
PushLineSkipSpan ==
    /\ pc = "scan"
    /\ i < lineCount
    /\ Classify(i).symbol
    /\ pushSymbol(i, DocumentSymbol(i, Classify(i)),
                  firstNonWhitespaceCharacterIndex(LineText(i)))
    /\ reads' = reads \cup Classify(i).reads
    /\ i' = Classify(i).endLine + 1
    /\ UNCHANGED <<doc, pc, previous>>

\* an iteration that builds a symbol and calls pushSymbol(symbol, indent)
PushLine ==
    /\ pc = "scan"
    /\ i < lineCount
    /\ Classify(i).symbol
    /\ pushSymbol(i, DocumentSymbol(i, Classify(i)),
                  firstNonWhitespaceCharacterIndex(LineText(i)))
    /\ reads' = reads \cup Classify(i).reads
    /\ i' = i + 1
    /\ UNCHANGED <<doc, pc, previous>>

\* return symbols
Return ==
    /\ pc = "scan"
    /\ i >= lineCount
    /\ pc' = "done"
    /\ UNCHANGED <<doc, i, symbols, node, stack, reads, previous>>

Next == SkipLine \/ PushLine \/ Return

\* no earlier call of provideDocumentSymbols
NoResult == [called |-> FALSE, symbols |-> <<>>, node |-> <<>>, removed |-> -1]

\* what an earlier call returned: the roots and the symbols reachable from
\* them; removed is the line deleted from the document since then (-1: none)
Result(k) == [called |-> TRUE, symbols |-> symbols, node |-> node, removed |-> k]

\* Invoke with the symbols array kept from the earlier call
InvokeSharedSymbols ==
    /\ pc = "done"
    /\ ~previous.called
    /\ previous' = Result(-1)
    /\ i' = 0
    /\ pc' = "scan"
    /\ symbols' = symbols
    /\ node' = <<>>
    /\ stack' = <<>>
    /\ reads' = {}
    /\ UNCHANGED doc

\* provideDocumentSymbols called a second time on the unchanged document:
\* symbols and stack are created anew
Invoke ==
    /\ pc = "done"
    /\ ~previous.called
    /\ previous' = Result(-1)
    /\ i' = 0
    /\ pc' = "scan"
    /\ symbols' = <<>>
    /\ node' = <<>>
    /\ stack' = <<>>
    /\ reads' = {}
    /\ UNCHANGED doc

\* the document without its line k
WithoutLine(k) == SubSeq(doc, 1, k) \o SubSeq(doc, k + 2, Len(doc))

\* provideDocumentSymbols called a second time after a line that yielded no
\* symbol was deleted from the document
InvokeEdited ==
    /\ pc = "done"
    /\ ~previous.called
    /\ lineCount >= 2
    /\ \E k \in ValidLines :
          /\ k \notin DOMAIN node
          /\ doc' = WithoutLine(k)
          /\ previous' = Result(k)
    /\ i' = 0
    /\ pc' = "scan"
    /\ symbols' = <<>>
    /\ node' = <<>>
    /\ stack' = <<>>
    /\ reads' = {}

NextTwice == Next \/ Invoke

NextEdited == Next \/ InvokeEdited

\* the state on entry of provideDocumentSymbols(document), document \in D
Entry(D) ==
    /\ doc \in D
    /\ i = 0
    /\ pc = "scan"
    /\ symbols = <<>>
    /\ node = <<>>
    /\ stack = <<>>
    /\ reads = {}
    /\ previous = NoResult

\* the documents of 1 .. maxLines lines over the lines of catalogue
Documents(catalogue, maxLines) ==
    UNION {[1 .. n -> catalogue] : n \in 1 .. maxLines}

\* ------------------------------------------------------------------------
\* Documents checked
\* ------------------------------------------------------------------------

L_blank == <<>>
L_comment == <<"/","/"," ","c">>
L_open == <<"{">>
L_close == <<"}">>
L_name == <<"a">>
L_nameOpen == <<"a"," ","{">>
L_reserved == <<"b","o","u","n","d","a","r","y">>
L_kv0 == <<"k"," ","v",";">>
L_kv1 == <<" ","k"," ","v",";">>
L_kv2 == <<" "," ","k"," ","v",";">>
L_kv3 == <<" "," "," ","k"," ","v",";">>
L_list == <<"v","(">>
L_listClose == <<")">>
L_FoamFile == <<"F","o","a","m","F","i","l","e">>
L_unit == <<"n","u"," ","[","0"," ","2"," ","-","1"," ","0"," ","0"," ","0"," ","0","]"," ","1","e","-","0","5",";">>
L_reservedOpen == <<"b","o","u","n","d","a","r","y"," ","{">>
L_reservedCap == <<"E","d","g","e","s">>
L_reservedStmt == <<"b","o","u","n","d","a","r","y",";">>
L_reservedKV == <<"i","n","t","e","r","n","a","l","F","i","e","l","d"," ","u","n","i","f","o","r","m"," ","0",";">>
L_reservedUnit == <<"p","o","i","n","t","s"," ","[","0"," ","1","]",";">>
L_tuple == <<"(","1"," ","2",")">>
L_closeOpen == <<")"," ","(">>
L_braces == <<"{","}">>
L_inlet == <<"i","n","l","e","t">>
L_kvw2 == <<" "," ","w"," ","1",";">>
L_kvUnit == <<" ","n","u"," ","[","0"," ","2","]",";">>
L_kvClass == <<" ","c","l","a","s","s"," ","v",";">>
L_dict == <<"n","u"," ","[","0"," ","2","]",";">>

\* blocks, lists and unbalanced delimiters
MaxLines == 4

BlockLines ==
    {L_blank, L_open, L_close, L_name, L_nameOpen, L_reserved, L_kv1,
     L_list, L_listClose, L_dict}

Init == Entry(Documents(BlockLines, MaxLines))

Spec == Init /\ [][Next]_vars

\* nesting by indentation
MaxIndentLines == 5

IndentLines == {L_blank, L_kv0, L_kv1, L_kv2, L_kv3, L_nameOpen}

InitIndent == Entry(Documents(IndentLines, MaxIndentLines))

SpecIndent == InitIndent /\ [][Next]_vars

\* the brace lookahead
MaxLookLines == 6

LookLines == {L_blank, L_comment, L_open, L_name, L_kv0}

InitLook == Entry(Documents(LookLines, MaxLookLines))

SpecLook == InitLook /\ [][Next]_vars

\* the file header and the single-line constructs
MaxHeaderLines == 4

HeaderLines == {L_blank, L_comment, L_open, L_close, L_FoamFile, L_unit, L_dict}

InitHeader == Entry(Documents(HeaderLines, MaxHeaderLines))

SpecHeader == InitHeader /\ [][Next]_vars

\* the reserved structural names
MaxReservedLines == 4

ReservedLines ==
    {L_blank, L_open, L_close, L_kv1, L_reserved, L_reservedOpen, L_reservedCap,
     L_reservedStmt, L_reservedKV, L_reservedUnit}

InitReserved == Entry(Documents(ReservedLines, MaxReservedLines))

SpecReserved == InitReserved /\ [][Next]_vars

\* lists and the scans of findClosingBracket
MaxListLines == 4

ListLines ==
    {L_blank, L_open, L_close, L_braces, L_name, L_nameOpen, L_list,
     L_listClose, L_tuple, L_closeOpen}

InitList == Entry(Documents(ListLines, MaxListLines))

SpecList == InitList /\ [][Next]_vars

\* two calls on one document
MaxTwiceLines == 4

TwiceLines ==
    {L_blank, L_open, L_close, L_name, L_nameOpen, L_kv1, L_list, L_listClose}

InitTwice == Entry(Documents(TwiceLines, MaxTwiceLines))

SpecTwice == InitTwice /\ [][NextTwice]_vars

\* the run of the for loop to its end
MaxScanLines == 3

ScanLines == {L_name, L_open, L_close, L_kv1}

InitScan == Entry(Documents(ScanLines, MaxScanLines))

\* the loop body has no wait and no call that can block: an iteration that
\* can run does run
SpecScan == InitScan /\ [][Next]_vars /\ WF_vars(Next)

\* a name, {, one to MaxAttributes attribute lines, }
MaxAttributes == 3

BlockNames == {L_name, L_inlet}

AttributeLines == {L_kv1, L_kv2, L_kvw2, L_kvClass, L_kvUnit}

RoundTripDocuments ==
    {<<name, L_open>> \o attrs \o <<L_close>> :
        name \in BlockNames,
        attrs \in UNION {[1 .. n -> AttributeLines] : n \in 1 .. MaxAttributes}}

InitRoundTrip == Entry(RoundTripDocuments)

SpecRoundTrip == InitRoundTrip /\ [][Next]_vars

\* a call, the deletion of a line that yielded no symbol, a second call
MaxEditLines == 4

EditLines == {L_blank, L_open, L_close, L_name, L_kv0, L_kv1}

InitEdit == Entry(Documents(EditLines, MaxEditLines))

SpecEdit == InitEdit /\ [][NextEdited]_vars

\* ------------------------------------------------------------------------
\* Properties
\* ------------------------------------------------------------------------

\* the symbols created so far, each named by its defining line
Nodes == DOMAIN node

\* the indent passed to pushSymbol with the symbol of line n
Indent(n) == firstNonWhitespaceCharacterIndex(LineText(n))

Max(S) == CHOOSE x \in S : \A y \in S : y <= x

Last(list) == list[Len(list)]

\* the symbols whose children list holds n
Parents(n) == {m \in Nodes : n \in Elems(node[m].children)}

\* the symbols inserted before n with a strictly smaller indent
SmallerBefore(n) == {m \in Nodes : m < n /\ Indent(m) < Indent(n)}

\* C1: every symbol is a child of exactly the nearest earlier-inserted symbol
\* of strictly smaller indent, and is a root exactly when there is none; the
\* symbol inserted last is the last element of the list it was appended to.
C1_NearestSmallerIndent ==
    /\ \A n \in Nodes :
          IF SmallerBefore(n) = {}
          THEN n \in Elems(symbols) /\ Parents(n) = {}
          ELSE n \notin Elems(symbols) /\ Parents(n) = {Max(SmallerBefore(n))}
    /\ Nodes # {} =>
          LET n == Max(Nodes)
          IN  IF Parents(n) = {} THEN Last(symbols) = n
              ELSE \A m \in Parents(n) : Last(node[m].children) = n

\* a symbol attached to a parent after deeper symbols in between were popped,
\* and a later symbol that became a root after the stack was emptied
C1_Witness ==
    /\ pc = "done"
    /\ \E n \in Nodes : \E m \in Parents(n) : \E x \in Nodes :
          m < x /\ x < n /\ Indent(x) >= Indent(n)
    /\ \E n \in Elems(symbols) : \E x \in Nodes : x < n /\ Parents(x) # {}

\* C2 as stated: the indents on the stack are non-increasing from the bottom
\* to the top.
C2_StackNonIncreasing ==
    \A k \in 1 .. Len(stack) - 1 : stack[k].indent >= stack[k + 1].indent

\* C2 amended: the indents on the stack are strictly increasing from the
\* bottom to the top, before and after every pushSymbol call.
C2_StackStrictlyIncreasing ==
    \A k \in 1 .. Len(stack) - 1 : stack[k].indent < stack[k + 1].indent

\* three open symbols on the stack after some earlier entry was popped
C2_Witness ==
    /\ Len(stack) >= 3
    /\ Cardinality(Nodes) > Len(stack)

StrictlyIncreasing(list) ==
    \A a, b \in DOMAIN list : a < b => list[a] < list[b]

IsPrefix(a, b) == Len(a) <= Len(b) /\ SubSeq(b, 1, Len(a)) = a

\* the pre-order flattening of the trees rooted at the symbols of list
RECURSIVE PreOrder(_)
PreOrder(list) ==
    IF list = <<>> THEN <<>>
    ELSE <<Head(list)>> \o PreOrder(node[Head(list)].children)
                        \o PreOrder(Tail(list))

C9_Ordered ==
    /\ StrictlyIncreasing(symbols)
    /\ \A n \in Nodes : StrictlyIncreasing(node[n].children)
    /\ StrictlyIncreasing(PreOrder(symbols))

C9_AppendOnly ==
    /\ IsPrefix(symbols, symbols')
    /\ \A n \in Nodes : IsPrefix(node[n].children, node'[n].children)

\* C9: the defining lines are strictly increasing along the root sequence,
\* along every children list and along the pre-order flattening of the tree,
\* and every step leaves each list a prefix of what it becomes.
C9_DocumentOrder == []C9_Ordered /\ [][C9_AppendOnly]_vars

\* a finished tree of depth three with two roots and a symbol of two children
C9_Witness ==
    /\ pc = "done"
    /\ Len(symbols) >= 2
    /\ \E n \in Nodes : Len(node[n].children) >= 2
    /\ \E n \in Nodes : \E m \in Parents(n) : Parents(m) # {}

\* ------------------------------------------------------------------------

BlockKinds == {"Struct", "Object", "Interface", "Array"}

\* the arguments of the findClosingBracket call that made the span of n
OpenChar(n) == IF node[n].kind = "Array" THEN "(" ELSE "{"

CloseChar(n) == IF node[n].kind = "Array" THEN ")" ELSE "}"

InitialCount(n) ==
    IF node[n].kind = "Array" \/ Includes(Trim(LineText(n)), "{") THEN 1 ELSE 0

\* the count after line j in a scan begun at line start with count init
RECURSIVE RunningCount(_, _, _, _, _)
RunningCount(j, start, init, oc, cc) ==
    IF j < start THEN init
    ELSE LET c == RunningCount(j - 1, start, init, oc, cc)
             line == LineText(j)
         IN  IF c = 0 /\ Trim(line) = <<oc>> THEN 1
             ELSE (IF c = 0 /\ StartsWith(Trim(line), <<oc>>) THEN 1 ELSE c)
                  + CountChar(line, oc) - CountChar(line, cc)

\* no line of the scan that made the span of n leaves the count at 0
NeverBalances(n) ==
    \A j \in n + 1 .. lineCount - 1 :
        RunningCount(j, n + 1, InitialCount(n), OpenChar(n), CloseChar(n)) # 0

\* C7: every line index given to lineAt and every line of a span is a line
\* of the document, and the span of a block or list whose scan never
\* balances ends on the last line.
C7_NoIllegalLine ==
    /\ reads \subseteq ValidLines
    /\ \A n \in Nodes :
          /\ node[n].range.start.line \in ValidLines
          /\ node[n].range.end.line \in ValidLines
          /\ node[n].kind \in BlockKinds /\ NeverBalances(n) =>
                node[n].range.end.line = lineCount - 1

\* a block opened on the last line, and a block whose count went negative
\* after a stray closer and never came back to 0
C7_Witness ==
    /\ pc = "done"
    /\ \E n \in Nodes : n = lineCount - 1 /\ node[n].kind \in BlockKinds
    /\ \E n \in Nodes :
          /\ node[n].kind \in BlockKinds
          /\ NeverBalances(n)
          /\ \E j \in n + 1 .. lineCount - 1 :
                RunningCount(j, n + 1, InitialCount(n), OpenChar(n), CloseChar(n)) < 0

\* ------------------------------------------------------------------------

\* Position.isBeforeOrEqual
PosLE(p, q) == p.line < q.line \/ (p.line = q.line /\ p.character <= q.character)

\* C8: the selection range of every symbol is the range of its defining
\* line and lies inside its span: the span starts where the line starts and
\* ends on no earlier line and at no earlier position than the line ends.
C8_SelectionInSpan ==
    \A n \in Nodes :
        /\ node[n].selectionRange.start = [line |-> n, character |-> 0]
        /\ node[n].selectionRange.end = [line |-> n, character |-> Len(doc[n + 1])]
        /\ node[n].range.start = node[n].selectionRange.start
        /\ node[n].range.end.line >= n
        /\ PosLE(node[n].selectionRange.end, node[n].range.end)

\* blocks whose span ends on the defining line and on a later line, next to
\* single-line symbols, in a document whose braces do not balance
C8_Witness ==
    /\ pc = "done"
    /\ \E n \in Nodes : node[n].kind \in BlockKinds /\ node[n].range.end.line = n
    /\ \E n \in Nodes : node[n].kind \in BlockKinds /\ node[n].range.end.line > n
    /\ \E n \in Nodes : node[n].kind \in {"Property", "Constant"}
    /\ \E n \in Nodes : node[n].kind \in BlockKinds /\ NeverBalances(n)

\* ------------------------------------------------------------------------

\* the first line after n that is neither blank nor a comment (-1 if none)
FirstSignificant(n) ==
    LET S == {j \in n + 1 .. lineCount - 1 : ~IsBlankOrComment(Trim(LineText(j)))}
    IN  IF S = {} THEN -1 ELSE CHOOSE j \in S : \A k \in S : j <= k

\* the construct of line n opens on a later line: only blank and comment
\* lines lie between line n and a line that starts with {
BraceFollows(n) ==
    /\ FirstSignificant(n) # -1
    /\ StartsWith(Trim(LineText(FirstSignificant(n))), <<"{">>)

IsDelim(r) == r.open \/ r.close

\* the occurrences of oc and cc on line j, left to right
LineDelims(j, oc, cc) ==
    SelectSeq([k \in 1 .. Len(LineText(j)) |->
                  [line |-> j, open |-> LineText(j)[k] = oc,
                   close |-> LineText(j)[k] = cc]],
              IsDelim)

\* the occurrences of oc and cc from line j to the end of the document
RECURSIVE DelimsFrom(_, _, _)
DelimsFrom(j, oc, cc) ==
    IF j >= lineCount THEN <<>>
    ELSE LineDelims(j, oc, cc) \o DelimsFrom(j + 1, oc, cc)

\* the nesting depth never drops below 0 and ends at 0
RECURSIVE BalancedFrom(_, _, _)
BalancedFrom(ds, k, depth) ==
    IF k > Len(ds) THEN depth = 0
    ELSE LET d == IF ds[k].open THEN depth + 1 ELSE depth - 1
         IN  d >= 0 /\ BalancedFrom(ds, k + 1, d)

Balanced ==
    /\ BalancedFrom(DelimsFrom(0, "{", "}"), 1, 0)
    /\ BalancedFrom(DelimsFrom(0, "(", ")"), 1, 0)

\* the line of the delimiter that brings the depth back to 0, counting from
\* the k-th delimiter of ds (-1 if none does)
RECURSIVE CloseLine(_, _, _)
CloseLine(ds, k, depth) ==
    IF k > Len(ds) THEN -1
    ELSE LET d == IF ds[k].open THEN depth + 1 ELSE depth - 1
         IN  IF d = 0 THEN ds[k].line ELSE CloseLine(ds, k + 1, d)

\* the line on which the construct of n has its own opening delimiter
\* (-1 if it has none)
OpenerLine(n) ==
    IF Includes(LineText(n), OpenChar(n)) THEN n
    ELSE IF OpenChar(n) = "{" /\ BraceFollows(n) THEN FirstSignificant(n)
    ELSE -1

\* the line of the closing delimiter that matches the first opening
\* delimiter on line OpenerLine(n)
MatchingCloseLine(n) ==
    LET ds == DelimsFrom(OpenerLine(n), OpenChar(n), CloseChar(n))
        k  == CHOOSE k \in 1 .. Len(ds) :
                  ds[k].open /\ \A h \in 1 .. k - 1 : ~ds[h].open
    IN  CloseLine(ds, k, 0)

\* C3: in a document whose delimiters are balanced, the span of every block
\* and list symbol starts on its defining line and ends at or after the line
\* of the closing delimiter that matches the construct's opening delimiter.
C3_SpanCoversConstruct ==
    pc = "done" /\ Balanced =>
        \A n \in Nodes :
            node[n].kind \in BlockKinds /\ OpenerLine(n) # -1 =>
                /\ node[n].range.start = LineStart(n)
                /\ node[n].range.end.line >= MatchingCloseLine(n)

\* C4: the span of every symbol ends at or after the end of the span of each
\* of its children.
C4_ChildrenInsideParent ==
    \A n \in Nodes : \A c \in Elems(node[n].children) :
        PosLE(node[c].range.end, node[n].range.end)

\* ------------------------------------------------------------------------

\* the lines the driver has gone through
Scanned == 0 .. i - 1

\* C5: a line whose trimmed text is FoamFile, its opening brace on the next
\* line or after blank and comment lines, yields a symbol of kind File named
\* FoamFile with detail header.
C5_FoamFileHeader ==
    \A n \in Scanned :
        Trim(LineText(n)) = S_FoamFile /\ BraceFollows(n) =>
            /\ n \in Nodes
            /\ node[n].kind = "File"
            /\ node[n].name = S_FoamFile
            /\ node[n].detail = S_header

\* the shape identifier [annotation] value; of a trimmed line: g1 is the
\* identifier, g2 the text between the brackets
UnitForm(text) ==
    LET p1 == SkipWhile(text, 1, WordChar)
        p2 == SkipWhile(text, p1, WS)
        p3 == SkipUntil(text, p2 + 1, {"]"})
        p4 == SkipWhile(text, p3 + 1, WS)
    IN  IF /\ p1 > 1
           /\ p2 > p1
           /\ p2 <= Len(text) /\ text[p2] = "["
           /\ p3 > p2 + 1
           /\ p3 <= Len(text)
           /\ p4 < Len(text)
           /\ SkipUntil(text, p4, {";"}) = Len(text)
        THEN Match(SubSeq(text, 1, p1 - 1), SubSeq(text, p2 + 1, p3 - 1))
        ELSE NoMatch

\* C6: a line of the shape identifier [annotation] value; yields a symbol of
\* kind Constant named by the identifier whose detail is the trimmed text
\* between the brackets.
C6_UnitConstant ==
    \A n \in Scanned :
        UnitForm(Trim(LineText(n))).ok =>
            /\ n \in Nodes
            /\ node[n].kind = "Constant"
            /\ node[n].name = UnitForm(Trim(LineText(n))).g1
            /\ node[n].detail = Trim(UnitForm(Trim(LineText(n))).g2)

\* ------------------------------------------------------------------------

\* a bare identifier line: no { on it, not matched by the reserved-name rule
BareIdentifier(n) ==
    /\ ~IsBlankOrComment(Trim(LineText(n)))
    /\ ~EDGES_REGEX(Trim(LineText(n))).ok
    /\ NAMED_BLOCK_REGEX(Trim(LineText(n))).ok
    /\ ~Includes(Trim(LineText(n)), "{")

\* the lines after n that are neither blank nor comments
SignificantAfter(n) ==
    {j \in n + 1 .. lineCount - 1 : ~IsBlankOrComment(Trim(LineText(j)))}

\* the first four of them
SignificantWindow(n) ==
    {j \in SignificantAfter(n) :
        Cardinality({k \in SignificantAfter(n) : k < j}) < 4}

\* C10 as stated: a bare identifier line yields a symbol exactly when one of
\* the up to 4 following non-blank, non-comment lines starts with {.
C10_WindowOfSignificantLines ==
    \A n \in Scanned :
        BareIdentifier(n) =>
            (n \in Nodes <=>
                \E j \in SignificantWindow(n) :
                    StartsWith(Trim(LineText(j)), <<"{">>))

\* C10 amended: a bare identifier line yields a symbol exactly when the
\* first non-blank, non-comment line after it starts with { and is one of
\* the 4 lines that follow it, blank and comment lines counted.
C10_FirstSignificantWithinFour ==
    \A n \in Scanned :
        BareIdentifier(n) =>
            (n \in Nodes <=> BraceFollows(n) /\ FirstSignificant(n) <= n + 4)

\* a bare identifier followed by four blank or comment lines and then a line
\* that starts with {: the brace is outside the window and no symbol is made
C10_Witness ==
    \E n \in Scanned :
        /\ BareIdentifier(n)
        /\ n \notin Nodes
        /\ BraceFollows(n)
        /\ FirstSignificant(n) = n + 5
        /\ \E j \in n + 1 .. n + 4 : LineText(j) = L_comment

\* ------------------------------------------------------------------------

LowerCase(text) == [k \in DOMAIN text |-> ToLower(text[k])]

\* the trimmed line starts with a reserved structural name, in any case
StartsReserved(text) ==
    \E w \in EdgesAlternatives : StartsWith(LowerCase(text), w)

\* the shape name value; of a trimmed line whose name is a reserved name:
\* g1 is the name, g2 the value, which is not empty, holds none of ; { } and
\* is not a bracketed unit annotation
ReservedKeyValue(text) ==
    LET p1 == SkipWhile(text, 1, WordChar \cup {"."})
        value == Trim(SubSeq(text, p1, Len(text) - 1))
    IN  IF /\ LowerCase(SubSeq(text, 1, p1 - 1)) \in EdgesAlternatives
           /\ p1 < Len(text) /\ text[p1] \in WS
           /\ EndsWith(text, ";")
           /\ value # <<>>
           /\ \A k \in DOMAIN value : value[k] \notin {";", "{", "}"}
           /\ ~(value[1] = "[" /\ SkipUntil(value, 2, {"]"}) = Len(value))
        THEN Match(SubSeq(text, 1, p1 - 1), value)
        ELSE NoMatch

ReservedBlockLine(text) ==
    LET p == SkipWhile(text, 1, Letter)
    IN  IF /\ LowerCase(SubSeq(text, 1, p - 1)) \in EdgesAlternatives
           /\ Trim(SubSeq(text, p, Len(text))) \in {<<>>, <<"{">>}
        THEN Match(SubSeq(text, 1, p - 1), <<>>)
        ELSE NoMatch

\* C14: a line that consists of a reserved name, in any letter case, alone or
\* followed by {, yields a symbol of kind Struct whose name and detail are
\* the keyword as matched, whatever follows the line (no brace lookahead, no
\* Object kind of the named-block rule); boundary, {, } yields one root
\* Struct symbol named boundary with detail boundary.
C14_ReservedBlock ==
    /\ \A n \in Scanned :
          LET m == ReservedBlockLine(Trim(LineText(n)))
          IN  m.ok =>
                  /\ n \in Nodes
                  /\ node[n].kind = "Struct"
                  /\ node[n].name = m.g1
                  /\ node[n].detail = m.g1
    /\ doc = <<L_reserved, L_open, L_close>> /\ pc = "done" =>
          /\ symbols = <<0>>
          /\ Nodes = {0}
          /\ node[0].name = S_boundary /\ node[0].detail = S_boundary
          /\ node[0].kind = "Struct" /\ node[0].children = <<>>

\* Edges as the last line, with no brace after it, and boundary { on one
\* line have both yielded a Struct symbol
C14_Witness ==
    /\ pc = "done"
    /\ LineText(lineCount - 1) = L_reservedCap
    /\ node[lineCount - 1].kind = "Struct"
    /\ node[lineCount - 1].name = L_reservedCap
    /\ \E n \in Nodes : LineText(n) = L_reservedOpen /\ node[n].kind = "Struct"

\* ------------------------------------------------------------------------

\* the places of the result that hold symbol n: <<-1, k>> is position k of
\* the root sequence, <<m, k>> position k of the children of symbol m
Places(n) ==
    {<<-1, k>> : k \in {k \in DOMAIN symbols : symbols[k] = n}}
    \cup UNION {{<<m, k>> : k \in {k \in DOMAIN node[m].children :
                                       node[m].children[k] = n}} : m \in Nodes}

\* the lines read so far for which the loop body built a symbol
Yielding == {n \in Scanned : Classify(n).symbol}

\* C12: every symbol created occupies exactly one place of the result, the
\* roots are exactly the symbols that are a child of no symbol, every child
\* comes after its parent, and the tree holds as many symbols as there are
\* lines that yielded one.
C12_EachSymbolOnce ==
    /\ \A n \in Nodes : Cardinality(Places(n)) = 1
    /\ \A n \in Nodes : \A m \in Parents(n) : m < n
    /\ Elems(symbols) = {n \in Nodes : Parents(n) = {}}
    /\ Nodes = Yielding
    /\ Len(PreOrder(symbols)) = Cardinality(Yielding)
    /\ Elems(PreOrder(symbols)) = Yielding

\* a finished scan with two roots, a child, a grandchild and a line that
\* yielded nothing
C12_Witness ==
    /\ pc = "done"
    /\ Len(symbols) >= 2
    /\ \E n \in Nodes : \E m \in Parents(n) : Parents(m) # {}
    /\ Cardinality(Nodes) < lineCount

\* ------------------------------------------------------------------------

RECURSIVE AncestorChain(_)
\* the ancestors of symbol n from its root down to n itself
AncestorChain(n) ==
    IF Parents(n) = {} THEN <<n>>
    ELSE Append(AncestorChain(CHOOSE m \in Parents(n) : TRUE), n)

\* C20: once pushSymbol has been called the stack is the chain of ancestors
\* of the symbol inserted last: its bottom entry is a root, every other entry
\* is the last child of the entry beneath it, its top entry is the symbol
\* inserted last, and every entry carries the indent of its symbol's line;
\* before the first call the stack is empty.
C20_StackIsAncestorChain ==
    IF Nodes = {} THEN stack = <<>>
    ELSE /\ stack # <<>>
         /\ stack[1].symbol \in Elems(symbols)
         /\ \A k \in 2 .. Len(stack) :
               /\ node[stack[k - 1].symbol].children # <<>>
               /\ Last(node[stack[k - 1].symbol].children) = stack[k].symbol
         /\ stack[Len(stack)].symbol = Max(Nodes)
         /\ [k \in DOMAIN stack |-> stack[k].symbol] = AncestorChain(Max(Nodes))
         /\ \A k \in DOMAIN stack : stack[k].indent = Indent(stack[k].symbol)

\* a stack of two entries left by a call that popped a deeper entry, under
\* a root that has an earlier child with a child of its own
C20_Witness ==
    /\ Len(stack) = 2
    /\ Len(node[stack[1].symbol].children) >= 2
    /\ \E n \in Nodes : \E m \in Parents(n) : Parents(m) # {}

\* ------------------------------------------------------------------------

\* the identifier of a trimmed line that consists of an identifier directly
\* followed by ( as its last character
ListLine(text) ==
    LET p == SkipWhile(text, 1, WordChar)
    IN  IF p > 1 /\ p = Len(text) /\ text[p] = "("
        THEN Match(SubSeq(text, 1, p - 1), <<>>)
        ELSE NoMatch

\* the depth of the list opened on line n after the whole of line j
RECURSIVE LineDepth(_, _)
LineDepth(n, j) ==
    IF j <= n THEN 1
    ELSE LineDepth(n, j - 1) + CountChar(LineText(j), "(")
                             - CountChar(LineText(j), ")")

\* the first line after n after which the depth is 0 (-1 if there is none)
BalanceLine(n) ==
    LET S == {j \in n + 1 .. lineCount - 1 : LineDepth(n, j) = 0}
    IN  IF S = {} THEN -1 ELSE CHOOSE j \in S : \A k \in S : j <= k

\* the line that holds the ) matching the ( that ends line n (-1 if none)
ListClose(n) == CloseLine(DelimsFrom(n + 1, "(", ")"), 1, 1)

\* the symbol of line n is a list symbol named name that starts on line n
IsListSymbol(n, name) ==
    /\ n \in Nodes
    /\ node[n].kind = "Array"
    /\ node[n].detail = S_list
    /\ node[n].name = name
    /\ node[n].range.start = LineStart(n)

\* C13 as stated: a line made of an identifier directly followed by ( yields
\* a list symbol whose span ends on the line that holds the matching ).
C13_EndsOnMatchingLine ==
    \A n \in Scanned :
        LET m == ListLine(Trim(LineText(n)))
        IN  m.ok =>
                /\ IsListSymbol(n, m.g1)
                /\ ListClose(n) # -1 => node[n].range.end = LineEnd(ListClose(n))

\* C13 (amended): a line made of an identifier directly followed by ( yields
\* a list symbol whose span runs from that line to the end of the first later
\* line after which the depth, started at 1 and updated once per whole line,
\* is 0, or of the last line when there is none; the span never ends before
\* the line that holds the matching ) and ends on it when the depth is 0
\* after that line.
C13_ListSpan ==
    \A n \in Scanned :
        LET m == ListLine(Trim(LineText(n)))
        IN  m.ok =>
                /\ IsListSymbol(n, m.g1)
                /\ node[n].range.end =
                       LineEnd(IF BalanceLine(n) = -1 THEN lineCount - 1
                               ELSE BalanceLine(n))
                /\ ListClose(n) # -1 =>
                       /\ node[n].range.end.line >= ListClose(n)
                       /\ LineDepth(n, ListClose(n)) = 0 =>
                              node[n].range.end.line = ListClose(n)

\* a list whose span passes a balanced tuple and ends on the line of its
\* matching ), before the last line
C13_Witness ==
    \E n \in Nodes :
        /\ ListLine(Trim(LineText(n))).ok
        /\ LineText(n + 1) = L_tuple
        /\ node[n].range.end.line = n + 2
        /\ ListClose(n) = n + 2
        /\ n + 2 < lineCount - 1

\* ------------------------------------------------------------------------

\* the lines from start on after which the running count is 0
ZeroLines(start, init, oc, cc) ==
    {j \in start .. lineCount - 1 : RunningCount(j, start, init, oc, cc) = 0}

\* the smallest of them, or the last line of the document when there is none
FirstZeroLine(start, init, oc, cc) ==
    LET Z == ZeroLines(start, init, oc, cc)
    IN  IF Z = {} THEN lineCount - 1 ELSE CHOOSE j \in Z : \A k \in Z : j <= k

DelimiterPairs == {<<"{", "}">>, <<"(", ")">>}

\* C18: for both delimiter pairs, every start line and every initial count,
\* findClosingBracket returns the smallest line index from startLine on at
\* which the running count is 0 after the line, and lineCount - 1 when there
\* is none; the count treats a line that is exactly the opener and a line
\* that starts with the opener as stated when it is 0, and adds openers and
\* subtracts closers otherwise. The spans of the block and list symbols end
\* on the line so found.
C18_FirstZeroLine ==
    /\ pc = "done" =>
          \A start \in 0 .. lineCount : \A init \in 0 .. 2 :
              \A pair \in DelimiterPairs :
                  findClosingBracket(start, pair[1], pair[2], init).ret =
                      FirstZeroLine(start, init, pair[1], pair[2])
    /\ \A n \in Nodes :
          node[n].kind \in BlockKinds =>
              node[n].range.end.line =
                  FirstZeroLine(n + 1, InitialCount(n), OpenChar(n), CloseChar(n))

\* a finished scan in which a block span was found from count 0 through a
\* line that is exactly { and a later line that starts with ( was counted
\* from count 0 by a scan for a list
C18_Witness ==
    /\ pc = "done"
    /\ \E n \in Nodes :
          /\ InitialCount(n) = 0 /\ OpenChar(n) = "{"
          /\ LineText(n + 1) = L_open
          /\ node[n].range.end.line > n + 1
          /\ node[n].range.end.line < lineCount - 1
    /\ \E start \in ValidLines :
          /\ LineText(start) = L_tuple
          /\ findClosingBracket(start, "(", ")", 0).ret = lineCount - 1
          /\ ZeroLines(start, 0, "(", ")") = {}

\* ------------------------------------------------------------------------

\* C17: a second call on the unchanged document starts from an empty root
\* sequence and an empty stack and returns a tree equal to the tree of the
\* first call: the same roots in the same order and, for every symbol, the
\* same name, detail, kind, range, selection range and children in the same
\* order.
C17_SecondCallSameTree ==
    /\ pc = "scan" /\ i = 0 => symbols = <<>> /\ stack = <<>> /\ node = <<>>
    /\ pc = "done" /\ previous.called =>
          /\ symbols = previous.symbols
          /\ DOMAIN node = DOMAIN previous.node
          /\ \A n \in Nodes :
                /\ node[n].name = previous.node[n].name
                /\ node[n].detail = previous.node[n].detail
                /\ node[n].kind = previous.node[n].kind
                /\ node[n].range = previous.node[n].range
                /\ node[n].selectionRange = previous.node[n].selectionRange
                /\ node[n].children = previous.node[n].children

\* the second call has returned a tree with two roots and a child under a
\* block
C17_Witness ==
    /\ pc = "done"
    /\ previous.called
    /\ Len(symbols) >= 2
    /\ \E n \in Nodes : node[n].kind = "Object" /\ node[n].children # <<>>

\* ------------------------------------------------------------------------

\* a step of the driver: the next line index, or the return after the last
DriverStep ==
    \/ pc = "scan" /\ i < lineCount /\ i' = i + 1 /\ pc' = "scan"
    \/ pc = "scan" /\ i = lineCount /\ i' = i /\ pc' = "done"

\* the lines read by the forward scans are lines of the document from the
\* current line on, so a scan reads at most lineCount lines
ScansBounded ==
    /\ i \in 0 .. lineCount
    /\ reads \subseteq ValidLines
    /\ \A n \in ValidLines :
          /\ Classify(n).reads \subseteq n .. lineCount - 1
          /\ Cardinality(Classify(n).reads) <= lineCount

\* at the return every line has been classified, the lines inside a span
\* included
AllClassified ==
    pc = "done" =>
        /\ i = lineCount
        /\ Nodes = {n \in ValidLines : Classify(n).symbol}

\* C16: the scan of every document ends with a result; every step of the
\* driver moves from line i to line i + 1, whatever the forward scans read,
\* until the return after the last line; every forward scan stays inside the
\* document; at the return every line has been classified.
C16_ScanTerminates ==
    /\ <>(pc = "done")
    /\ [][DriverStep]_vars
    /\ []ScansBounded
    /\ []AllClassified

\* the scan has returned, and a line inside the span of a block was
\* classified and yielded a symbol of its own
C16_Witness ==
    /\ pc = "done"
    /\ \E n \in Nodes : \E m \in Nodes :
          /\ n < m /\ m <= node[n].range.end.line
          /\ Lookahead(n).reads # {}

\* ------------------------------------------------------------------------

\* the lines of the attributes of a document name, {, attributes, }
AttributeIndices == 2 .. lineCount - 2

\* key and value of a line key value; : the text before the first white
\* space and the trimmed text between it and the final ;
AttrKey(text) == SubSeq(text, 1, SkipUntil(text, 1, WS) - 1)

AttrValue(text) ==
    Trim(SubSeq(text, SkipUntil(text, 1, WS), Len(text) - 1))

\* the root and its children as C15 states them: one root, an Object named
\* by line 0 with detail block that spans the document, and one Property per
\* attribute line, in order, named by the key with the value as its detail
RoundTripResult ==
    /\ symbols = <<0>>
    /\ Nodes = {0} \cup AttributeIndices
    /\ node[0].name = Trim(LineText(0))
    /\ node[0].kind = "Object"
    /\ node[0].detail = S_block
    /\ node[0].range = [start |-> LineStart(0), end |-> LineEnd(lineCount - 1)]
    /\ node[0].children = [k \in 1 .. lineCount - 3 |-> k + 1]
    /\ \A n \in AttributeIndices :
          /\ node[n].kind = "Property"
          /\ node[n].name = AttrKey(Trim(LineText(n)))
          /\ node[n].detail = AttrValue(Trim(LineText(n)))
          /\ node[n].children = <<>>

\* the name is not reserved: no structural name, in any letter case
NotStructural(name) == LowerCase(name) \notin EdgesAlternatives

\* C15 as stated: a document made of a bare name that is not reserved, {,
\* attribute lines indented deeper than the name and } yields the round-trip
\* result.
C15_RoundTrip ==
    pc = "done" /\ NotStructural(Trim(LineText(0)))
                /\ (\A n \in AttributeIndices : Indent(n) > Indent(0))
        => RoundTripResult

\* keys for which the key-value rule picks a kind of its own
HeaderKeys == {S_class, S_object, S_version, S_format, S_location}

\* C15 (amended): the round-trip result holds when the name is neither a
\* structural name nor a patch name nor FoamFile, all attribute lines have
\* one and the same indent, deeper than the name's, no key is one of class,
\* object, version, format, location, and no value starts with [.
C15_RoundTripSameIndent ==
    pc = "done" /\ NotStructural(Trim(LineText(0)))
                /\ Trim(LineText(0)) \notin InterfaceNames \cup {L_FoamFile}
                /\ (\A n \in AttributeIndices :
                       /\ Indent(n) > Indent(0)
                       /\ Indent(n) = Indent(2)
                       /\ AttrKey(Trim(LineText(n))) \notin HeaderKeys
                       /\ AttrValue(Trim(LineText(n)))[1] # "[")
        => RoundTripResult

\* a finished scan of a, {, three attribute lines of one indent with two
\* different keys, }
C15_Witness ==
    /\ pc = "done"
    /\ lineCount = 6
    /\ LineText(0) = L_name
    /\ \A n \in AttributeIndices : Indent(n) = 2
    /\ \E n \in AttributeIndices : \E m \in AttributeIndices :
          node[n].name # node[m].name
    /\ RoundTripResult

\* ------------------------------------------------------------------------

\* the index, in the document without line previous.removed, of the line
\* that had index o before
Shift(o) == IF o < previous.removed THEN o ELSE o - 1

\* the parents of symbol n in the tree of the earlier call
ParentsBefore(n) ==
    {m \in DOMAIN previous.node : n \in Elems(previous.node[m].children)}

\* the first line after the deleted one that yielded a symbol in the earlier
\* call (-1 if there is none)
NextYielding ==
    LET S == {m \in DOMAIN previous.node : m > previous.removed}
    IN  IF S = {} THEN -1 ELSE CHOOSE m \in S : \A x \in S : m <= x

\* line o of the earlier document has, in the scan of the document without
\* the deleted line, the parent it had in the earlier scan
SameParent(o) ==
    /\ Shift(o) \in Nodes
    /\ Parents(Shift(o)) = {Shift(m) : m \in ParentsBefore(o)}

\* C19 as stated: the line after a line that yielded no symbol gets the
\* parent it would have had if that line were absent.
C19_SameParentIfAbsent ==
    pc = "done" /\ previous.called /\ NextYielding # -1 =>
        SameParent(NextYielding)

\* an iteration that builds no symbol leaves the stack, the roots and every
\* children list as they are
SkipFrame ==
    pc = "scan" /\ i < lineCount /\ ~Classify(i).symbol =>
        stack' = stack /\ symbols' = symbols /\ node' = node

\* the deletion left the other lines yielding a symbol or not as before
SameYield == Nodes = {Shift(m) : m \in DOMAIN previous.node}

\* when the deletion of a line that yielded no symbol does not change which
\* other lines yield one, every symbol keeps its parent and the roots stay
\* the same
ParentsKept ==
    pc = "done" /\ previous.called /\ SameYield =>
        /\ \A o \in DOMAIN previous.node : SameParent(o)
        /\ symbols = [k \in DOMAIN previous.symbols |-> Shift(previous.symbols[k])]

\* C19 (amended): a line that yields no symbol leaves the stack, the roots
\* and every children list unchanged; the lines after it get the parents
\* they would have had without that line whenever its absence does not
\* change which of the other lines yield a symbol.
C19_SkippedLineFrame == [][SkipFrame]_vars /\ []ParentsKept

\* the second scan is over: a line was deleted between a parent and its
\* child, the same lines yielded symbols, and the child has its parent
C19_Witness ==
    /\ pc = "done"
    /\ previous.called
    /\ SameYield
    /\ NextYielding # -1
    /\ ParentsBefore(NextYielding) # {}
    /\ \A m \in ParentsBefore(NextYielding) : m < previous.removed
    /\ SameParent(NextYielding)

====
